---- MODULE Spec2Model ----
(***************************************************************************)
(* Property listing application: record store (app/models.py), price model *)
(* service (app/services/ml_service.py) and the admin handlers that mutate *)
(* the store and retrain (app/blueprints/admin.py).                        *)
(***************************************************************************)
EXTENDS Integers, Sequences, FiniteSets, TLC

VARIABLES
    store,      \* data/properties.json: the sequence of property records
    nextId,     \* source of fresh identifiers and creation timestamps
    model,      \* ml_service.model     (None or a fitted regressor)
    scaler,     \* ml_service.scaler    (None or a fitted scaler)
    artifact,   \* models/price_model.pkl: [exists, blob]
    desc,       \* the description given to the most recent predict_price call
    last,       \* observation of the most recent call: what ran and what it returned
    ops,        \* number of calls made so far
    calls       \* the requests being handled at the same time: each one's
                \* position in its handler and its locals (none when calls
                \* are made one after the other)

vars == <<store, nextId, model, scaler, artifact, desc, last, ops, calls>>

----------------------------------------------------------------------------
(* Bounds of the model *)

MaxSeed == 5        \* usable records already in the data file at start
MaxOps == 2         \* calls per behaviour

(* Program constants *)

MinProperties == 5  \* len(properties) < 5
MinRows == 5        \* len(data) < 5

----------------------------------------------------------------------------
(* Python / JSON values.  A dict key that is missing is Absent; a key that *)
(* is present holds None (JSON null), a non-numeric string, a number or a  *)
(* label.                                                                  *)

None == [t |-> "none"]
Absent == [t |-> "absent"]
Garbled == [t |-> "str"]
Num(n) == [t |-> "num", v |-> n]
Label(s) == [t |-> "label", s |-> s]
Bool(b) == [t |-> "bool", b |-> b]
Vec(x) == [t |-> "vec", x |-> x]

\* dict.get(key, default)
Get(d, k, default) == IF d[k] = Absent THEN default ELSE d[k]

\* `key in prop`
HasKey(d, k) == d[k] # Absent

\* float(x) / int(x): a number converts, None raises TypeError, a
\* non-numeric string raises ValueError
ConvRaises(x) == x.t # "num"
ConvValue(x) == x.v

\* Python truthiness of a price: None and 0 are falsy
Truthy(x) == x.t = "num" /\ x.v # 0

\* max(0, x)
Max0(x) == IF 0 > x THEN 0 ELSE x

----------------------------------------------------------------------------
(* Config *)

JENIS_JALAN_MAP == [gang_kecil |-> 1, jalan_sedang |-> 2, jalan_besar |-> 3]
KONDISI_MAP == [butuh_renovasi |-> 1, renovasi_ringan |-> 2, baik |-> 3, baru |-> 4]
SERTIFIKAT_MAP == [girik |-> 1, hgb |-> 2, shm |-> 3]

\* the 13 input keys, in the order of Config.FEATURE_COLUMNS
InputKeys == <<"luas_tanah", "luas_bangunan", "kamar_tidur", "kamar_mandi",
               "carport", "tahun_dibangun", "lantai", "jarak_sekolah",
               "jarak_rs", "jarak_pasar", "jenis_jalan", "kondisi",
               "sertifikat">>

KeySet == {InputKeys[i] : i \in DOMAIN InputKeys}
NumericKeys == {InputKeys[i] : i \in 1..10}
CategoricalKeys == {InputKeys[i] : i \in 11..13}

\* mapping.get(value, 0)
encode_categorical(value, mapping) ==
    IF value.t = "label" /\ value.s \in DOMAIN mapping
    THEN mapping[value.s] ELSE 0

----------------------------------------------------------------------------
(* Record store: PropertyRepository *)

Ids(props) == {props[i].id : i \in DOMAIN props}

\* properties.append(property_data); save_properties(properties)
add_property(props, property_data) == Append(props, property_data)

\* index of the first record with this id, 0 when there is none
FirstIndex(props, property_id) ==
    IF \E i \in DOMAIN props : props[i].id = property_id
    THEN CHOOSE i \in DOMAIN props :
            /\ props[i].id = property_id
            /\ \A j \in 1..(i - 1) : props[j].id # property_id
    ELSE 0

update_stored_drop_created(old, property_id, updated_data) ==
    [updated_data EXCEPT !.id = property_id]

\* the record update_property stores in place of `old`
update_stored(old, property_id, updated_data) ==
    LET withId == [updated_data EXCEPT !.id = property_id]
    IN  IF ~HasKey(updated_data, "created_at") /\ HasKey(old, "created_at")
        THEN [withId EXCEPT !.created_at = old.created_at]
        ELSE withId

\* PropertyRepository.update_property: [ok, props]
update_property(props, property_id, updated_data) ==
    LET i == FirstIndex(props, property_id)
    IN  IF i = 0 THEN [ok |-> FALSE, props |-> props]
        ELSE [ok |-> TRUE,
              props |-> [props EXCEPT
                           ![i] = update_stored(props[i], property_id, updated_data)]]

delete_property_not_saved(props, property_id) ==
    LET kept == SelectSeq(props, LAMBDA p : p.id # property_id)
    IN  [ok |-> Len(kept) < Len(props), props |-> props]

delete_property_reports_found(props, property_id) ==
    [ok |-> TRUE, props |-> SelectSeq(props, LAMBDA p : p.id # property_id)]

\* PropertyRepository.delete_property: [ok, props]
delete_property(props, property_id) ==
    LET kept == SelectSeq(props, LAMBDA p : p.id # property_id)
    IN  IF Len(kept) < Len(props) THEN [ok |-> TRUE, props |-> kept]
        ELSE [ok |-> FALSE, props |-> props]

----------------------------------------------------------------------------
(* Price model service: MLPredictionService *)

\* a usable training row: truthy price and both area keys present
Usable(prop) ==
    /\ Truthy(Get(prop, "harga", None))
    /\ HasKey(prop, "luas_tanah") /\ HasKey(prop, "luas_bangunan")

\* a row of the training frame; src is the record it was built from (the
\* stored areas and prices are numbers, so the conversions do not raise)
TrainRow(prop) ==
    [src |-> prop.id,
     x |-> <<ConvValue(prop.luas_tanah), ConvValue(prop.luas_bangunan)>>,
     y |-> ConvValue(prop.harga)]

\* the rows built from the usable records, in store order
Rows(props) ==
    LET usable == SelectSeq(props, Usable)
    IN  [i \in 1..Len(usable) |-> TrainRow(usable[i])]

prepare_ml_data_min4(props) ==
    IF Len(props) < MinProperties - 1 THEN None
    ELSE IF Len(Rows(props)) < MinRows - 1 THEN None
    ELSE Vec(Rows(props))

\* prepare_ml_data: None, or the frame built from the usable records
prepare_ml_data(props) ==
    IF Len(props) < MinProperties THEN None
    ELSE IF Len(Rows(props)) < MinRows THEN None
    ELSE Vec(Rows(props))

\* responses the fitted regressor can have; the library's fit is not modelled,
\* the response it learns is fixed when it is fitted
FitOutcomes == {-3, 1}

\* StandardScaler().fit(X) and RandomForestRegressor(...).fit(X_scaled, y)
FitScaler(df) == [t |-> "scaler", snap |-> df.x]
FitModel(df, e) == [t |-> "rf", snap |-> df.x, est |-> e]

\* scaler.transform([features])
Transform(s, features) == [by |-> s.snap, x |-> features]

\* model.predict(features_scaled)[0]
ModelPredict(m, xs) == m.est + xs.x[3]

Dump_model_only(m, s) == <<[key |-> "model", val |-> m]>>

\* pickle.dump({'model': model, 'scaler': scaler}, f): the entries in the
\* order they are written
Dump(m, s) == <<[key |-> "model", val |-> m], [key |-> "scaler", val |-> s]>>

\* what the open/dump of train_model can do to the file:
\*   open_fail : open() raises, the file is untouched
\*   cut       : open() truncates the file, dump raises before the blob is
\*               complete
\*   ok        : the whole blob is written
WriteOutcomes == {"ok", "open_fail", "cut"}

\* the file after open('models/price_model.pkl', 'wb') and pickle.dump
Written(old, blob, w) ==
    CASE w = "ok" -> [exists |-> TRUE, blob |-> blob]
      [] w = "cut" -> [exists |-> TRUE, blob |-> SubSeq(blob, 1, 1)]
      [] OTHER -> old

\* pickle.load(f) succeeds on a complete blob only
Loadable(file) ==
    /\ file.exists
    /\ Len(file.blob) = 2
    /\ file.blob[1].key = "model" /\ file.blob[2].key = "scaler"

\* the state of the service and of its file after a call, with the call's
\* return value, the result of the train_model it ran (None when it ran
\* none) and what that train_model's write did ("none" when it wrote nothing)
Svc(m, s, f, ret, trained, w) ==
    [model |-> m, scaler |-> s, artifact |-> f, ret |-> ret,
     trained |-> trained, w |-> w]

\* train_model, given what the write does (w) and what the fit learns (e)
train_model(props, m, s, f, w, e) ==
    LET df == prepare_ml_data(props)
    IN  IF df = None THEN Svc(m, s, f, FALSE, Bool(FALSE), "none")
        ELSE LET s2 == FitScaler(df)
                 m2 == FitModel(df, e)
             IN  Svc(m2, s2, Written(f, Dump(m2, s2), w), w = "ok",
                     Bool(w = "ok"), w)

load_model_retrain_on_corrupt(props, m, s, f, w, e) ==
    IF Loadable(f) THEN Svc(f.blob[1].val, f.blob[2].val, f, TRUE, None, "none")
    ELSE train_model(props, m, s, f, w, e)

load_model_keeps_scaler(props, m, s, f, w, e) ==
    IF Loadable(f) THEN Svc(f.blob[1].val, s, f, TRUE, None, "none")
    ELSE IF ~f.exists THEN train_model(props, m, s, f, w, e)
    ELSE Svc(m, s, f, FALSE, None, "none")

\* load_model
load_model(props, m, s, f, w, e) ==
    IF Loadable(f) THEN Svc(f.blob[1].val, f.blob[2].val, f, TRUE, None, "none")
    ELSE IF ~f.exists THEN train_model(props, m, s, f, w, e)
    ELSE Svc(m, s, f, FALSE, None, "none")

\* the documented defaults of _get_ml_prediction, by input key
PredictDefault ==
    [luas_tanah |-> 100, luas_bangunan |-> 80, kamar_tidur |-> 2,
     kamar_mandi |-> 1, carport |-> 0, tahun_dibangun |-> 2020, lantai |-> 1,
     jarak_sekolah |-> 1000, jarak_rs |-> 2000, jarak_pasar |-> 1500]

CategoricalMap ==
    [jenis_jalan |-> JENIS_JALAN_MAP, kondisi |-> KONDISI_MAP,
     sertifikat |-> SERTIFIKAT_MAP]

FeatureOf_zero_default(d, k) ==
    IF k \in NumericKeys
    THEN ConvValue(Get(d, k, Num(0)))
    ELSE encode_categorical(Get(d, k, None), CategoricalMap[k])

\* one element of the feature list: float/int(property_data.get(k, default))
\* or encode_categorical(property_data.get(k), map)
FeatureOf(d, k) ==
    IF k \in NumericKeys
    THEN ConvValue(Get(d, k, Num(PredictDefault[k])))
    ELSE encode_categorical(Get(d, k, None), CategoricalMap[k])

\* building the feature list raises when a numeric value does not convert
FeaturesRaise(d) ==
    \E k \in NumericKeys : ConvRaises(Get(d, k, Num(PredictDefault[k])))

Features(d) == [i \in DOMAIN InputKeys |-> FeatureOf(d, InputKeys[i])]

\* the defaults of prepare_ml_data's prop.get, by key; the two areas are
\* read with prop[...] and have none
TrainDefault ==
    [kamar_tidur |-> 2, kamar_mandi |-> 1, carport |-> 0,
     tahun_dibangun |-> 2020, lantai |-> 1, jarak_sekolah |-> 1000,
     jarak_rs |-> 2000, jarak_pasar |-> 1500]

RowFeatureOf_unknown_as_one(prop, k) ==
    IF k \in {"luas_tanah", "luas_bangunan"} THEN ConvValue(prop[k])
    ELSE IF k \in NumericKeys
    THEN ConvValue(Get(prop, k, Num(TrainDefault[k])))
    ELSE LET code == encode_categorical(Get(prop, k, None), CategoricalMap[k])
         IN  IF code = 0 THEN 1 ELSE code

\* one element of a training row (prepare_ml_data, lines 31-43)
RowFeatureOf(prop, k) ==
    IF k \in {"luas_tanah", "luas_bangunan"} THEN ConvValue(prop[k])
    ELSE IF k \in NumericKeys
    THEN ConvValue(Get(prop, k, Num(TrainDefault[k])))
    ELSE encode_categorical(Get(prop, k, None), CategoricalMap[k])

\* the 13 feature columns of the training row built from a record
RowFeatures(prop) == [i \in DOMAIN InputKeys |-> RowFeatureOf(prop, InputKeys[i])]

Clamp_none(prediction) == prediction

\* max(0, prediction)
Clamp(prediction) == Max0(prediction)

\* the result of a predict_price call
Pred(sv, ret, raised, feat, raw, loaded) ==
    [model |-> sv.model, scaler |-> sv.scaler, artifact |-> sv.artifact,
     ret |-> ret, raised |-> raised, feat |-> feat, raw |-> raw,
     loaded |-> loaded, trained |-> sv.trained, w |-> sv.w]

\* lines 108-139, once a model is in memory or load_model has returned True
PredictWith(sv, d, loaded) ==
    IF FeaturesRaise(d) THEN Pred(sv, None, TRUE, None, None, loaded)
    ELSE IF sv.scaler # None /\ sv.model # None
         THEN LET prediction ==
                      ModelPredict(sv.model, Transform(sv.scaler, Features(d)))
              IN  Pred(sv, Num(Clamp(prediction)), FALSE, Vec(Features(d)),
                       Num(prediction), loaded)
         ELSE Pred(sv, None, FALSE, Vec(Features(d)), None, loaded)

predict_no_lazy_load(props, m, s, f, d, w, e) ==
    PredictWith(Svc(m, s, f, TRUE, None, "none"), d, None)

predict_price_refreshing(props, m, s, f, d, w, e) ==
    IF m = None
    THEN LET sv == load_model(props, m, s, f, w, e)
         IN  IF ~sv.ret THEN Pred(sv, None, FALSE, None, None, Bool(FALSE))
             ELSE PredictWith(sv, d, Bool(TRUE))
    ELSE IF m.snap # Rows(props) /\ prepare_ml_data(props) # None
    THEN PredictWith(train_model(props, m, s, f, "ok", m.est), d, None)
    ELSE PredictWith(Svc(m, s, f, TRUE, None, "none"), d, None)

\* predict_price / _get_ml_prediction
predict_price(props, m, s, f, d, w, e) ==
    IF m = None
    THEN LET sv == load_model(props, m, s, f, w, e)
         IN  IF ~sv.ret THEN Pred(sv, None, FALSE, None, None, Bool(FALSE))
             ELSE PredictWith(sv, d, Bool(TRUE))
    ELSE PredictWith(Svc(m, s, f, TRUE, None, "none"), d, None)

----------------------------------------------------------------------------
(* State machine *)

\* what `last` records of a call: the operation, the id it named, the
\* repository's result, the return value, whether an exception left the call,
\* the feature list and the raw estimate of a prediction, the result of the
\* load_model and of the train_model the call ran (None when it ran none),
\* what the write did, and whether the call before it ended a successful
\* train_model
Obs(op, id, ok, ret, raised, feat, raw, loaded, trained, w) ==
    [op |-> op, id |-> id, ok |-> ok, ret |-> ret, raised |-> raised,
     feat |-> feat, raw |-> raw, loaded |-> loaded, trained |-> trained,
     w |-> w, afterTrain |-> (last.trained = Bool(TRUE))]

InitObs ==
    [op |-> "init", id |-> None, ok |-> None, ret |-> None, raised |-> FALSE,
     feat |-> None, raw |-> None, loaded |-> None, trained |-> None,
     w |-> "none", afterTrain |-> FALSE]

\* a record as the data file holds it; a key the record lacks is Absent
Prop(id, harga, luas_tanah, luas_bangunan, created_at) ==
    [id |-> id, harga |-> harga, luas_tanah |-> luas_tanah,
     luas_bangunan |-> luas_bangunan, created_at |-> created_at]

\* records the data file holds at start: usable ones, and possibly one that
\* lacks an area key or a positive price
SeedUsable(i) == Prop(Num(i), Num(2), Num(1), Num(1), Num(0))

SeedTails(i) ==
    {<<>>,
     <<Prop(Num(i), Num(2), Absent, Num(1), Num(0))>>,
     <<Prop(Num(i), Num(2), Num(1), Absent, Num(0))>>,
     <<Prop(Num(i), None, Num(1), Num(1), Num(0))>>,
     <<Prop(Num(i), Num(0), Num(1), Num(1), Num(0))>>}

\* the data file at start: empty, MaxSeed usable records, or one fewer with
\* possibly an unusable record after them
SeedStores ==
    {<<>>, [i \in 1..MaxSeed |-> SeedUsable(i)]}
        \cup {[i \in 1..(MaxSeed - 1) |-> SeedUsable(i)] \o tail :
                 tail \in SeedTails(MaxSeed)}

\* the ids a request names: the first and the last record of the store, and
\* an id no record has
TargetIds == {store[i].id : i \in {1, Len(store)} \cap DOMAIN store}
                 \cup {Num(nextId)}

\* the prices _parse_price yields from the form: None or a non-negative int
FormPrices == {None, Num(3)}

\* the dict the add/update handlers build from the form (areas are always
\* present: int(form value or 0)); the update handler sets no id, no created_at
FormData(harga) == Prop(Absent, harga, Num(1), Num(1), Absent)

\* descriptions given to predict_price
EmptyDesc == [k \in KeySet |-> Absent]

Descs ==
    {EmptyDesc,
     [EmptyDesc EXCEPT !["kamar_tidur"] = Num(3), !["kondisi"] = Label("baik")],
     [EmptyDesc EXCEPT !["luas_tanah"] = None]}

NoFile == [exists |-> FALSE, blob |-> <<>>]

\* the outcomes of the write and of the fit, where a call reaches them
Choices(props, trains) ==
    IF trains /\ prepare_ml_data(props) # None
    THEN WriteOutcomes \X FitOutcomes
    ELSE {<<"none", 0>>}

\* whether load_model falls through to train_model
LoadTrains(f) == ~f.exists

\* the artifact an earlier run of the process can have left for this data
\* file: none, or what its train_model wrote
LeftBehind(props) ==
    {train_model(props, None, None, NoFile, c[1], c[2]).artifact :
        c \in Choices(props, TRUE)}

Init ==
    /\ store \in SeedStores
    /\ nextId = Len(store) + 1
    /\ model = None
    /\ scaler = None
    /\ artifact \in LeftBehind(store)
    /\ desc = EmptyDesc
    /\ last = InitObs
    /\ ops = 0
    /\ calls = <<>>

Apply(sv) ==
    /\ model' = sv.model
    /\ scaler' = sv.scaler
    /\ artifact' = sv.artifact

\* admin.add_property: store the new record, then retrain
AdminAdd ==
    /\ ops < MaxOps
    /\ \E harga \in FormPrices :
       \E property_data \in {[FormData(harga) EXCEPT !.id = Num(nextId),
                                                    !.created_at = Num(nextId)]} :
       \E props \in {add_property(store, property_data)} :
       \E c \in Choices(props, TRUE) :
       \E sv \in {train_model(props, model, scaler, artifact, c[1], c[2])} :
          /\ store' = props
          /\ nextId' = nextId + 1
          /\ Apply(sv)
          /\ last' = Obs("add", Num(nextId), None, None, FALSE, None, None,
                         None, sv.trained, sv.w)
          /\ ops' = ops + 1
          /\ UNCHANGED <<desc, calls>>

\* admin.update_property: look the record up, replace it, retrain on success
AdminUpdate ==
    /\ ops < MaxOps
    /\ \E property_id \in TargetIds, harga \in FormPrices :
       \E found \in {property_id \in Ids(store)} :
       \E r \in {update_property(store, property_id, FormData(harga))} :
       \E c \in Choices(r.props, found /\ r.ok) :
       \E sv \in {IF found /\ r.ok
                  THEN train_model(r.props, model, scaler, artifact, c[1], c[2])
                  ELSE Svc(model, scaler, artifact, FALSE, None, "none")} :
          /\ store' = IF found THEN r.props ELSE store
          /\ Apply(sv)
          /\ last' = Obs("update", property_id,
                         IF found THEN Bool(r.ok) ELSE None,
                         None, FALSE, None, None, None, sv.trained, sv.w)
          /\ ops' = ops + 1
          /\ UNCHANGED <<nextId, desc, calls>>

\* admin.delete_property: delete, retrain on success
AdminDelete ==
    /\ ops < MaxOps
    /\ \E property_id \in TargetIds :
       \E r \in {delete_property(store, property_id)} :
       \E c \in Choices(r.props, r.ok) :
       \E sv \in {IF r.ok
                  THEN train_model(r.props, model, scaler, artifact, c[1], c[2])
                  ELSE Svc(model, scaler, artifact, FALSE, None, "none")} :
          /\ store' = r.props
          /\ Apply(sv)
          /\ last' = Obs("delete", property_id, Bool(r.ok), None, FALSE,
                         None, None, None, sv.trained, sv.w)
          /\ ops' = ops + 1
          /\ UNCHANGED <<nextId, desc, calls>>

\* ml_service.train_model() on the current store (admin.update_base_prices)
Train ==
    /\ ops < MaxOps
    /\ \E c \in Choices(store, TRUE) :
       \E sv \in {train_model(store, model, scaler, artifact, c[1], c[2])} :
          /\ Apply(sv)
          /\ last' = Obs("train", None, None, Bool(sv.ret), FALSE, None,
                         None, None, sv.trained, sv.w)
          /\ ops' = ops + 1
          /\ UNCHANGED <<store, nextId, desc, calls>>

\* ml_service.load_model() (main.py, at start-up)
Load ==
    /\ ops < MaxOps
    /\ \E c \in Choices(store, LoadTrains(artifact)) :
       \E sv \in {load_model(store, model, scaler, artifact, c[1], c[2])} :
          /\ Apply(sv)
          /\ last' = Obs("load", None, None, Bool(sv.ret), FALSE, None,
                         None, None, sv.trained, sv.w)
          /\ ops' = ops + 1
          /\ UNCHANGED <<store, nextId, desc, calls>>

\* ml_service.predict_price(d)
PredictCall(d) ==
    \E c \in Choices(store, model = None /\ LoadTrains(artifact)) :
    \E pr \in {predict_price(store, model, scaler, artifact, d, c[1], c[2])} :
       /\ Apply(pr)
       /\ desc' = d
       /\ last' = Obs("predict", None, None, pr.ret, pr.raised, pr.feat,
                      pr.raw, pr.loaded, pr.trained, pr.w)
       /\ ops' = ops + 1
       /\ UNCHANGED <<store, nextId, calls>>

\* a prediction request (api.predict_price, main.predict)
Predict ==
    /\ ops < MaxOps
    /\ \E d \in Descs : PredictCall(d)

\* the process starts again: ml_service = MLPredictionService() with no
\* model in memory; the data file and the artifact stay as they are
Restart ==
    /\ ops < MaxOps
    /\ model' = None
    /\ scaler' = None
    /\ last' = Obs("restart", None, None, None, FALSE, None, None, None, None,
                   "none")
    /\ ops' = ops + 1
    /\ UNCHANGED <<store, nextId, artifact, desc, calls>>

Next ==
    \/ Restart
    \/ AdminAdd
    \/ AdminUpdate
    \/ AdminDelete
    \/ Train
    \/ Load
    \/ Predict

Spec == Init /\ [][Next]_vars

----------------------------------------------------------------------------
(* The repository called on its own: PropertyRepository.add_property,      *)
(* update_property and delete_property without the handlers' train_model   *)

\* the start-up of main.py has run: the fields hold the pair of the
\* artifact when load_model could read it, and nothing otherwise
InitRepo ==
    /\ store \in SeedStores
    /\ nextId = Len(store) + 1
    /\ artifact \in LeftBehind(store)
    /\ \E sv \in {IF Loadable(artifact)
                   THEN load_model(store, None, None, artifact, "none", 0)
                   ELSE Svc(None, None, artifact, FALSE, None, "none")} :
          /\ model = sv.model
          /\ scaler = sv.scaler
    /\ desc = EmptyDesc
    /\ last = InitObs
    /\ ops = 0
    /\ calls = <<>>

\* a repository call changes the data file only
RepoCall(op, id, ok, props) ==
    /\ store' = props
    /\ last' = Obs(op, id, ok, None, FALSE, None, None, None, None, "none")
    /\ ops' = ops + 1
    /\ UNCHANGED <<model, scaler, artifact, desc, calls>>

\* PropertyRepository.add_property(property_data)
RepoAdd ==
    /\ ops < MaxOps
    /\ \E harga \in FormPrices :
       \E property_data \in {[FormData(harga) EXCEPT !.id = Num(nextId),
                                                    !.created_at = Num(nextId)]} :
          /\ RepoCall("repo_add", Num(nextId), None,
                      add_property(store, property_data))
          /\ nextId' = nextId + 1

\* PropertyRepository.update_property(property_id, updated_data)
RepoUpdate ==
    /\ ops < MaxOps
    /\ \E property_id \in TargetIds, harga \in FormPrices :
       \E r \in {update_property(store, property_id, FormData(harga))} :
          /\ RepoCall("repo_update", property_id, Bool(r.ok), r.props)
          /\ UNCHANGED nextId

\* PropertyRepository.delete_property(property_id)
RepoDelete ==
    /\ ops < MaxOps
    /\ \E property_id \in TargetIds :
       \E r \in {delete_property(store, property_id)} :
          /\ RepoCall("repo_delete", property_id, Bool(r.ok), r.props)
          /\ UNCHANGED nextId

NextRepo ==
    \/ RepoAdd
    \/ RepoUpdate
    \/ RepoDelete
    \/ Train
    \/ Predict

SpecRepo == InitRepo /\ [][NextRepo]_vars

----------------------------------------------------------------------------
(* The feature list of a prediction, over every way of omitting keys *)

\* a well-formed value for a key, different from the key's default
ValidValue(k) ==
    IF k \in NumericKeys THEN Num(PredictDefault[k] + 1)
    ELSE Label(CHOOSE l \in DOMAIN CategoricalMap[k] : CategoricalMap[k][l] = 2)

\* every subset of the 13 keys omitted, the others well-formed
OmittingDescs ==
    {[k \in KeySet |-> IF k \in S THEN Absent ELSE ValidValue(k)] :
        S \in SUBSET KeySet}

\* one numeric key present but null or not a number, alone or with the
\* other keys well-formed
GarbledDescs ==
    {[d EXCEPT ![k] = g] :
        d \in {EmptyDesc, [k2 \in KeySet |-> ValidValue(k2)]},
        k \in NumericKeys, g \in {None, Garbled}}

\* one categorical key holding a label its table does not know
UnknownLabelDescs ==
    {[EmptyDesc EXCEPT ![k] = Label("lainnya")] : k \in CategoricalKeys}

\* every key well-formed but one categorical key, whose label its table
\* does not know
RecordDescs ==
    {[[k2 \in KeySet |-> ValidValue(k2)] EXCEPT ![k] = Label("lainnya")] :
        k \in CategoricalKeys}

FeatDescs ==
    OmittingDescs \cup GarbledDescs \cup UnknownLabelDescs \cup RecordDescs

InitFeat ==
    /\ store = [i \in 1..MaxSeed |-> SeedUsable(i)]
    /\ nextId = Len(store) + 1
    /\ model = None
    /\ scaler = None
    /\ artifact = NoFile
    /\ desc \in FeatDescs
    /\ last = InitObs
    /\ ops = 0
    /\ calls = <<>>

\* the one prediction request of the behaviour, with the description drawn
PredictGiven ==
    /\ ops = 0
    /\ PredictCall(desc)

NextFeat == PredictGiven

SpecFeat == InitFeat /\ [][NextFeat]_vars

----------------------------------------------------------------------------
(* Property search: AIPropertySearch (app/services/ai_service.py), the      *)
(* pattern-based extractor and strict filter (app/utils/search_utils.py)    *)
(* and the /search_properties endpoint (app/blueprints/api.py).             *)

MaxRecs == 3        \* records in the data file of a search behaviour

DisplayCount == 6   \* [:6], min(len(filtered_properties), 6)
FallbackCount == 5  \* load_properties()[:5] in the endpoint's except branch

Inf == 1000000      \* float('inf'): above every price of the model

\* a place name as the words it is made of, and whether it is written in
\* title case
Name(words, title) == [t |-> "name", words |-> words, title |-> title]

\* str.lower().strip()
Lower(name) == [name EXCEPT !.title = FALSE]

\* `a in b` for two strings: a's words occur in b, contiguously and in the
\* same case
Within(a, b) ==
    /\ a.title = b.title
    /\ \E i \in 0..(Len(b.words) - Len(a.words)) :
          \A j \in 1..Len(a.words) : b.words[i + j] = a.words[j]

\* criteria_name in prop_name or prop_name in criteria_name
NameMatch(propName, criteriaName) ==
    \/ Within(Lower(criteriaName), Lower(propName))
    \/ Within(Lower(propName), Lower(criteriaName))

\* the list f[1], ..., f[n], built element by element
RECURSIVE ListOf(_, _)
ListOf(f, n) == IF n = 0 THEN <<>> ELSE Append(ListOf(f, n - 1), f[n])

\* the items by ascending key, items of equal key in their original order
StableOrder(items, keys) ==
    LET n == Len(items)
        rank(i) == Cardinality({j \in 1..n :
                       \/ keys[j] < keys[i]
                       \/ keys[j] = keys[i] /\ j < i}) + 1
    IN  ListOf([p \in 1..n |-> items[CHOOSE i \in 1..n : rank(i) = p]], n)

\* list.sort(key=...): stable, ascending
SortAsc(items, keys) ==
    StableOrder(ListOf(items, Len(items)), ListOf(keys, Len(items)))

\* list.sort(key=..., reverse=True): by descending key, items of equal key
\* still in their original order
SortDesc(items, keys) == SortAsc(items, [i \in DOMAIN keys |-> 0 - keys[i]])

\* seq[:n]
Take(seq, n) == SubSeq(seq, 1, IF Len(seq) < n THEN Len(seq) ELSE n)

\* a record of the data file as the search reads it
SearchProp(id, status, harga, kamar_tidur, kamar_mandi, luas_tanah, kelurahan) ==
    [id |-> Num(id), status |-> Label(status), harga |-> harga,
     kamar_tidur |-> Num(kamar_tidur), kamar_mandi |-> Num(kamar_mandi),
     luas_tanah |-> Num(luas_tanah), luas_bangunan |-> Num(1),
     kelurahan |-> kelurahan]

Majasari == Name(<<"majasari">>, TRUE)
GunungIbul == Name(<<"gunung", "ibul">>, TRUE)
GunungIbulBarat == Name(<<"gunung", "ibul", "barat">>, TRUE)

\* the records the admin handlers can have stored: status 'available' on
\* add and any status on update, price None or a non-negative int
RecordPool(i) ==
    {SearchProp(i, "available", Num(104), 2, 1, 2, Majasari),
     SearchProp(i, "available", Num(100), 3, 2, 1, GunungIbul),
     SearchProp(i, "available", Num(125), 2, 1, 3, GunungIbulBarat),
     SearchProp(i, "available", Num(500), 2, 1, 1, Majasari),
     SearchProp(i, "available", None, 1, 1, 2, GunungIbul),
     SearchProp(i, "sold", Num(100), 2, 1, 1, Majasari)}

RECURSIVE StoresOfLen(_)
StoresOfLen(n) ==
    IF n = 0 THEN {<<>>}
    ELSE {Append(st, r) : st \in StoresOfLen(n - 1), r \in RecordPool(n)}

\* a data file with more records than a response shows: seven records, the
\* first or the last of them possibly sold
LongStores ==
    {[i \in 1..(DisplayCount + 1) |->
         SearchProp(i, IF i = k THEN "sold" ELSE "available",
                    Num(100 + i), 2, 1, 1, Majasari)] :
       k \in {0, 1, DisplayCount + 1}}

SearchStores == UNION {StoresOfLen(n) : n \in 0..MaxRecs} \cup LongStores

\* the keys of a criteria dict that the model draws; every other key of the
\* AI's JSON is null and every other key of the extractor's dict is missing,
\* so the branches reading them add nothing
CriteriaKeys ==
    {"budget_min", "budget_max", "budget", "budget_range", "kamar_tidur",
     "kamar_mandi", "kelurahan", "kecamatan", "price_preference",
     "size_preference"}

\* {} : the criteria dict with no key
NoCriteria == [k \in CriteriaKeys |-> Absent]

\* `not criteria`
IsEmptyDict(c) == \A k \in CriteriaKeys : c[k] = Absent

\* criteria.get(key)
CGet(c, k) == Get(c, k, None)

\* (min_budget, max_budget)
Range(lo, hi) == [t |-> "range", lo |-> lo, hi |-> hi]

\* ---- AIPropertySearch._filter_properties_with_criteria ----

\* lines 222-227: the budget test a record has to pass
HasBudget(c) == CGet(c, "budget_min") # None /\ CGet(c, "budget_max") # None

PassesHardFilters(prop, c) ==
    HasBudget(c) =>
        LET prop_price == Get(prop, "harga", None)
        IN  /\ prop_price # None
            /\ prop_price.v > 0
            /\ ~(prop_price.v < c.budget_min.v \/ prop_price.v > c.budget_max.v)

\* lines 229-238: price_diff = abs(price - center) / center against 0.1, 0.3
\* and 0.5, with center = (budget_min + budget_max) / 2, in whole numbers
BudgetScore(prop, c) ==
    IF HasBudget(c) /\ PassesHardFilters(prop, c)
    THEN LET twice == c.budget_min.v + c.budget_max.v
             d == 2 * prop.harga.v - twice
             diff == IF d < 0 THEN 0 - d ELSE d
         IN  IF 10 * diff <= twice THEN 40
             ELSE IF 10 * diff <= 3 * twice THEN 30
             ELSE IF 10 * diff <= 5 * twice THEN 20
             ELSE 10
    ELSE 0

\* lines 240-254: full points for the exact count, partial for one off
CountScore(prop, c, key, default, exact, partial) ==
    IF CGet(c, key) = None THEN 0
    ELSE LET have == Get(prop, key, Num(default)).v
             want == c[key].v
         IN  IF have = want THEN exact
             ELSE IF have - want = 1 \/ want - have = 1 THEN partial
             ELSE 0

\* lines 256-260
KelurahanScore(prop, c) ==
    IF CGet(c, "kelurahan") = None THEN 0
    ELSE IF NameMatch(prop.kelurahan, c.kelurahan) THEN 20 ELSE 0

Score(prop, c) ==
    BudgetScore(prop, c)
        + CountScore(prop, c, "kamar_tidur", 0, 25, 12)
        + CountScore(prop, c, "kamar_mandi", 0, 15, 7)
        + KelurahanScore(prop, c)

\* line 312: the record goes into scored_properties
Kept(prop, c) == PassesHardFilters(prop, c) \/ Score(prop, c) > 0

\* a budget bound that is not a number makes the comparison with the first
\* priced record raise TypeError
FilterAIRaises(props, c) ==
    /\ HasBudget(c)
    /\ c.budget_min.t # "num" \/ c.budget_max.t # "num"
    /\ \E i \in DOMAIN props :
          Get(props[i], "harga", None) # None /\ props[i].harga.v > 0

ScoreSort_unstable(props, c) ==
    LET n == Len(props)
    IN  SortAsc([i \in 1..n |-> props[n + 1 - i]],
                [i \in 1..n |-> 0 - Score(props[n + 1 - i], c)])

\* line 318: scored_properties.sort(key=score, reverse=True)
ScoreSort(props, c) ==
    SortDesc(props, [i \in DOMAIN props |-> Score(props[i], c)])

\* lines 321-325: the price preference sort; a null price counts as the
\* highest price for 'low' and as 0 for 'high'
PriceSortAI(props, c) ==
    LET key(i, ifNull) ==
            IF Get(props[i], "harga", None) # None THEN props[i].harga.v
            ELSE ifNull
    IN  IF CGet(c, "price_preference") = Label("low")
        THEN SortAsc(props, [i \in DOMAIN props |-> key(i, Inf)])
        ELSE IF CGet(c, "price_preference") = Label("high")
        THEN SortDesc(props, [i \in DOMAIN props |-> key(i, 0)])
        ELSE props

\* the outcome of a filter call: the list returned, or an exception
Returned(props) == [raised |-> FALSE, props |-> props]
Raised == [raised |-> TRUE, props |-> <<>>]

_filter_properties_with_criteria(props, c) ==
    IF IsEmptyDict(c) THEN Returned(props)
    ELSE IF FilterAIRaises(props, c) THEN Raised
    ELSE Returned(PriceSortAI(
             ScoreSort(SelectSeq(props, LAMBDA prop : Kept(prop, c)), c), c))

\* ---- search_utils.filter_properties_strict ----

\* lines 222-234: exact count
CountMatches_within_one(prop, c, key) ==
    HasKey(c, key) =>
        LET d == Get(prop, key, Num(0)).v - c[key].v
        IN  d \in {-1, 0, 1}

CountMatches(prop, c, key) ==
    HasKey(c, key) => Get(prop, key, Num(0)).v = c[key].v

\* lines 254-267
KelurahanMatches(prop, c) ==
    HasKey(c, "kelurahan") =>
        \/ Lower(prop.kelurahan) = Lower(c.kelurahan)
        \/ /\ Within(Lower(GunungIbul), Lower(c.kelurahan))
           /\ Within(Lower(GunungIbul), Lower(prop.kelurahan))
        \/ NameMatch(prop.kelurahan, c.kelurahan)

\* lines 290-297: prop.get('harga', 0) is compared with 0 and then with the
\* two bounds; a null price is not equal to 0 and makes the comparison with
\* the bounds raise TypeError
BudgetRaises(prop, c) ==
    HasKey(c, "budget_range") /\ Get(prop, "harga", Num(0)) = None

BudgetMatches(prop, c) ==
    HasKey(c, "budget_range") =>
        LET prop_price == Get(prop, "harga", Num(0)).v
        IN  /\ prop_price # 0
            /\ c.budget_range.lo <= prop_price
            /\ prop_price <= c.budget_range.hi

Matches(prop, c) ==
    /\ CountMatches(prop, c, "kamar_tidur")
    /\ CountMatches(prop, c, "kamar_mandi")
    /\ KelurahanMatches(prop, c)
    /\ BudgetMatches(prop, c)

\* lines 322-326: the price preference sort, key p.get('harga', inf) or
\* p.get('harga', 0); comparing a null key raises TypeError
PriceSorts(c) ==
    HasKey(c, "price_preference")
        /\ c.price_preference \in {Label("low"), Label("high")}

PriceSortRaises(props, c) ==
    /\ PriceSorts(c)
    /\ Len(props) >= 2
    /\ \E i \in DOMAIN props : props[i].harga = None

\* p.get('harga', default) as a sort key; a null key is only reached here
\* for a list of one record, where the sort compares nothing
PriceKey(prop, default) ==
    LET harga == Get(prop, "harga", Num(default))
    IN  IF harga = None THEN default ELSE harga.v

PriceSortStrict(props, c) ==
    IF ~PriceSorts(c) THEN props
    ELSE IF c.price_preference = Label("low")
    THEN SortAsc(props, [i \in DOMAIN props |-> PriceKey(props[i], Inf)])
    ELSE SortDesc(props, [i \in DOMAIN props |-> PriceKey(props[i], 0)])

\* p.get('luas_tanah', 0) + p.get('luas_bangunan', 0)
TotalArea(prop) ==
    Get(prop, "luas_tanah", Num(0)).v + Get(prop, "luas_bangunan", Num(0)).v

\* lines 328-332: the size preference sort, applied after the price sort
SizeSort(props, c) ==
    IF ~HasKey(c, "size_preference") THEN props
    ELSE IF c.size_preference = Label("large")
    THEN SortDesc(props, [i \in DOMAIN props |-> TotalArea(props[i])])
    ELSE IF c.size_preference = Label("small")
    THEN SortAsc(props, [i \in DOMAIN props |-> TotalArea(props[i])])
    ELSE props

filter_properties_strict(props, c) ==
    IF IsEmptyDict(c) THEN Returned(props)
    ELSE IF \E i \in DOMAIN props : BudgetRaises(props[i], c) THEN Raised
    ELSE LET filtered == SelectSeq(props, LAMBDA prop : Matches(prop, c))
         IN  IF PriceSortRaises(filtered, c) THEN Raised
             ELSE Returned(SizeSort(PriceSortStrict(filtered, c), c))

\* ---- AIPropertySearch.search_properties and the endpoint ----

\* the response dict: the records, which explanation string, the flag
Response(props, explanation, ai_powered) ==
    [properties |-> props, explanation |-> explanation,
     ai_powered |-> ai_powered]

Available_all(props) == props

\* [p for p in all_properties if p.get('status') == 'available']
Available(props) ==
    SelectSeq(props, LAMBDA p : Get(p, "status", None) = Label("available"))

\* what the call to the AI gives: a criteria dict parsed from its JSON, or
\* an error (the call or json.loads raises)
AIError == [t |-> "error"]
AIGives(c) == [t |-> "criteria", criteria |-> c]

\* _extract_criteria_with_ai: the parsed dict, {} when the call fails
_extract_criteria_with_ai(ai) ==
    IF ai.t = "error" THEN NoCriteria ELSE ai.criteria

\* _generate_explanation halves budget_min + budget_max: TypeError when they
\* are not numbers
ExplanationRaises(c) ==
    HasBudget(c) /\ (c.budget_min.t # "num" \/ c.budget_max.t # "num")

\* search_properties(query), given whether the query is blank, whether the
\* AI client is configured, and what the AI gives
search_properties(props, blank, gemini, ai) ==
    IF blank THEN Response(Take(props, DisplayCount), "latest", FALSE)
    ELSE IF ~gemini THEN Response(<<>>, "ai_unavailable", FALSE)
    ELSE LET available_properties == Available(props)
         IN  IF available_properties = <<>>
             THEN Response(<<>>, "none_available", FALSE)
             ELSE LET criteria == _extract_criteria_with_ai(ai)
                      out == _filter_properties_with_criteria(
                                 available_properties, criteria)
                  IN  IF out.raised \/ (out.props # <<>> /\ ExplanationRaises(criteria))
                      THEN Response(Take(available_properties, DisplayCount),
                                    "search_error", FALSE)
                      ELSE IF out.props # <<>>
                      THEN Response(Take(out.props, DisplayCount), "found", TRUE)
                      ELSE Response(<<>>, "no_match", TRUE)

\* the body of a POST /search_properties: no JSON object, a blank query, or
\* a query with text
Bodies == {"no_json", "blank", "text"}

\* api.search_properties
api_search_properties(props, body, gemini, ai) ==
    IF body = "no_json"
    THEN Response(Take(props, FallbackCount), "endpoint_error", FALSE)
    ELSE IF body = "blank"
    THEN Response(Take(props, DisplayCount), "latest", FALSE)
    ELSE search_properties(props, FALSE, gemini, ai)

\* ---- the search state machine ----

\* the AI's JSON with every modelled key null
NullCriteria ==
    [NoCriteria EXCEPT !.budget_min = None, !.budget_max = None,
                       !.kamar_tidur = None, !.kamar_mandi = None,
                       !.kelurahan = None, !.price_preference = None]

\* the budget band 70..130 around 100
WithBudget(c) == [c EXCEPT !.budget_min = Num(70), !.budget_max = Num(130)]

\* criteria the AI's JSON can hold, before the price preference
ScoringCriteria ==
    {NullCriteria,
     WithBudget(NullCriteria),
     [NullCriteria EXCEPT !.kamar_tidur = Num(2)],
     [NullCriteria EXCEPT !.kamar_tidur = Num(2), !.kamar_mandi = Num(1)],
     [NullCriteria EXCEPT !.kelurahan = Name(<<"gunung", "ibul">>, FALSE)],
     [WithBudget(NullCriteria) EXCEPT !.kamar_tidur = Num(2)],
     [WithBudget(NullCriteria) EXCEPT !.kelurahan = Majasari]}

\* a JSON whose budget bounds are strings
IllTypedCriteria ==
    [NullCriteria EXCEPT !.budget_min = Garbled, !.budget_max = Garbled]

AICriteria ==
    {NoCriteria, IllTypedCriteria}
        \cup {[c EXCEPT !.price_preference = pref] :
                 c \in ScoringCriteria,
                 pref \in {None, Label("low"), Label("high")}}
        \cup {[NullCriteria EXCEPT !.size_preference = Label("small")]}

AIOutcomes == {AIError} \cup {AIGives(c) : c \in AICriteria}

\* criteria dicts as extract_search_criteria builds them: a key is there or
\* is not
StrictCriteria ==
    {[NoCriteria EXCEPT !.kamar_tidur = kt, !.budget_range = br,
                        !.price_preference = pp, !.size_preference = sp] :
        kt \in {Absent, Num(2)}, br \in {Absent, Range(80, 120)},
        pp \in {Absent, Label("low"), Label("high")},
        sp \in {Absent, Label("small"), Label("large")}}
      \cup {[NoCriteria EXCEPT !.kamar_tidur = kt, !.kamar_mandi = Num(1),
                               !.kelurahan = kel] :
               kt \in {Absent, Num(2)}, kel \in {Absent, GunungIbul}}

\* what `last` records of a search call: the operation, the list and the
\* criteria it was given, whether it raised, and what it returned
SearchObs(op, input, criteria, raised, result, explanation) ==
    [op |-> op, input |-> input, criteria |-> criteria, raised |-> raised,
     result |-> result, explanation |-> explanation]

InitSearch ==
    /\ store \in SearchStores
    /\ nextId = Len(store) + 1
    /\ model = None
    /\ scaler = None
    /\ artifact = NoFile
    /\ desc = EmptyDesc
    /\ last = SearchObs("init", <<>>, NoCriteria, FALSE, <<>>, "none")
    /\ ops = 0
    /\ calls = <<>>

\* the result of a search operation becomes the observation; nothing else
\* changes
Observe(obs) ==
    /\ last' = obs
    /\ ops' = ops + 1
    /\ UNCHANGED <<store, nextId, model, scaler, artifact, desc, calls>>

\* the outcomes of the AI call, where a request reaches it
AsksAI(reached) == IF reached THEN AIOutcomes ELSE {AIError}

\* POST /search_properties
SearchRequest ==
    /\ ops = 0
    /\ \E body \in Bodies, gemini \in BOOLEAN :
       \E ai \in AsksAI(body = "text" /\ gemini) :
       \E r \in {api_search_properties(store, body, gemini, ai)} :
          Observe(SearchObs("request", store,
                            IF body = "text" /\ gemini THEN ai ELSE None,
                            FALSE, r.properties, r.explanation))

\* AIPropertySearch.search_properties(query)
SearchCall ==
    /\ ops = 0
    /\ \E blank \in BOOLEAN, gemini \in BOOLEAN :
       \E ai \in AsksAI(~blank /\ gemini) :
       \E r \in {search_properties(store, blank, gemini, ai)} :
          Observe(SearchObs("search", store,
                            IF ~blank /\ gemini THEN ai ELSE None,
                            FALSE, r.properties, r.explanation))

\* _filter_properties_with_criteria on the available records
FilterAI ==
    /\ ops = 0
    /\ \E c \in AICriteria :
       \E r \in {_filter_properties_with_criteria(Available(store), c)} :
          Observe(SearchObs("filter_ai", Available(store), c, r.raised,
                            r.props, "none"))

\* filter_properties_strict on the records of the data file
FilterStrict ==
    /\ ops = 0
    /\ \E c \in StrictCriteria :
       \E r \in {filter_properties_strict(store, c)} :
          Observe(SearchObs("filter_strict", store, c, r.raised, r.props,
                            "none"))

NextSearch ==
    \/ SearchRequest
    \/ SearchCall
    \/ FilterAI
    \/ FilterStrict

SpecSearch == InitSearch /\ [][NextSearch]_vars

\* ---- search_utils.extract_search_criteria ----

MaxQuery == 3       \* tokens in a query
MaxPhrase == 4      \* tokens in a query that names places

Million == 1000000  \* int(matches[0]) * 1000000

\* a query is the sequence of its tokens, in lower case: runs of digits and
\* words
Digits(n) == [t |-> "digits", v |-> n]
Word(w) == [t |-> "word", w |-> w]

\* the words lines 13-15 delete from the query
StopWords == {"kalau", "kalo", "gimana", "bagaimana", "berapa", "rumah",
              "properti", "yang", "dengan", "punya", "memiliki"}

Normalize(query) ==
    SelectSeq(query, LAMBDA tok : ~(tok.t = "word" /\ tok.w \in StopWords))

\* budget_patterns, in order: where the digits stand relative to the word,
\* and the words the pattern accepts there
budget_patterns ==
    <<[digitsFirst |-> TRUE, words |-> {"juta", "jutaan"}],
      [digitsFirst |-> FALSE, words |-> {"budget"}],
      [digitsFirst |-> TRUE, words |-> {"m"}],
      [digitsFirst |-> FALSE, words |-> {"harga"}],
      [digitsFirst |-> TRUE, words |-> {"milyar", "milyaran"}]>>

\* the positions at which a pattern matches: digits and word side by side
MatchesAt(q, pat) ==
    {i \in 1..(Len(q) - 1) :
        LET d == IF pat.digitsFirst THEN q[i] ELSE q[i + 1]
            w == IF pat.digitsFirst THEN q[i + 1] ELSE q[i]
        IN  d.t = "digits" /\ w.t = "word" /\ w.w \in pat.words}

\* re.findall(pattern, query_lower)[0]: the digits of the leftmost match
FirstMatch(q, pat) ==
    LET i == CHOOSE i \in MatchesAt(q, pat) : \A j \in MatchesAt(q, pat) : i <= j
    IN  IF pat.digitsFirst THEN q[i].v ELSE q[i + 1].v

\* line 30: the multiplier applied to the digits a pattern matched
Multiplier(pat) == Million

\* lines 27-33: the first pattern that matches sets budget and budget_range
\* (budget * 0.8, budget * 1.2); budget is a multiple of ten
ExtractBudget(q, c) ==
    LET hits == {p \in DOMAIN budget_patterns :
                    MatchesAt(q, budget_patterns[p]) # {}}
    IN  IF hits = {} THEN c
        ELSE LET p == CHOOSE p \in hits : \A p2 \in hits : p <= p2
                 budget == FirstMatch(q, budget_patterns[p])
                               * Multiplier(budget_patterns[p])
             IN  [c EXCEPT !.budget = Num(budget),
                           !.budget_range = Range((budget \div 10) * 8,
                                                  (budget \div 10) * 12)]

HasWord(q, terms) == \E i \in DOMAIN q : q[i].t = "word" /\ q[i].w \in terms

\* lines 196-205
ExtractPreferences(q, c) ==
    LET price == IF HasWord(q, {"murah", "cheap", "ekonomis"}) THEN Label("low")
                 ELSE IF HasWord(q, {"mahal", "expensive", "mewah", "luxury"})
                 THEN Label("high") ELSE Absent
        size == IF HasWord(q, {"besar", "luas", "big", "large"}) THEN Label("large")
                ELSE IF HasWord(q, {"kecil", "small", "compact"})
                THEN Label("small") ELSE Absent
    IN  [c EXCEPT !.price_preference = price, !.size_preference = size]

\* kelurahan_list and kecamatan_list, each name as its words
kelurahan_list ==
    <<<<"majasari">>, <<"sukaraja">>, <<"gunung", "ibul">>, <<"gunungibul">>,
      <<"patih", "galung">>, <<"wonosari">>, <<"gunung", "kemala">>,
      <<"sukajadi">>, <<"karang", "bindu">>, <<"kel.", "tanjung", "telang">>,
      <<"tanjung", "telang">>, <<"tanjung", "raman">>, <<"cambai">>,
      <<"muara", "dua">>, <<"anak", "petai">>, <<"pangkul">>,
      <<"karang", "jaya">>, <<"gunung", "ibul", "barat">>, <<"mangga">>>>

kecamatan_list ==
    <<<<"prabumulih", "selatan">>, <<"prabumulih", "timur">>,
      <<"prabumulih", "barat">>, <<"prabumulih", "utara">>, <<"cambai">>,
      <<"rambang", "kapak", "tengah">>>>

\* location_patterns, in order: the words before the captured group
location_patterns ==
    <<<<"di", "kelurahan">>, <<"kelurahan">>, <<"di", "kecamatan">>,
      <<"kecamatan">>, <<"di">>, <<"daerah">>, <<"wilayah">>, <<"area">>>>

\* `a in b` for two phrases: the words of a occur in b side by side
WordsIn(a, b) ==
    \E i \in 0..(Len(b) - Len(a)) : \A j \in 1..Len(a) : b[i + j] = a[j]

\* the positions at which a location pattern matches: its words, then at
\* least one word for the group
PatternAt(q, kw) ==
    {i \in 1..(Len(q) - Len(kw)) :
        /\ \A j \in 1..Len(kw) : q[i + j - 1] = Word(kw[j])
        /\ q[i + Len(kw)].t = "word"}

\* matches[0].strip(): the group ([a-zA-Z\s]+) of the leftmost match, the
\* words that follow up to the next run of digits
Captured(q, kw) ==
    LET i == CHOOSE i \in PatternAt(q, kw) : \A j \in PatternAt(q, kw) : i <= j
        from == i + Len(kw)
        to == CHOOSE e \in from..Len(q) :
                  /\ \A j \in from..e : q[j].t = "word"
                  /\ e = Len(q) \/ q[e + 1].t # "word"
    IN  ListOf([j \in 1..(to - from + 1) |-> q[from + j - 1].w], to - from + 1)

\* index of the first name of the list the location matches, 0 when none:
\* `name in location or location in name`
FirstNamed(list, location) ==
    LET hits == {n \in DOMAIN list :
                    WordsIn(list[n], location) \/ WordsIn(location, list[n])}
    IN  IF hits = {} THEN 0 ELSE CHOOSE n \in hits : \A n2 \in hits : n <= n2

\* index of the first name of the list found in the query, 0 when none
FirstInQuery(list, q) ==
    LET hits == {n \in DOMAIN list :
                    \E i \in 0..(Len(q) - Len(list[n])) :
                        \A j \in 1..Len(list[n]) : q[i + j] = Word(list[n][j])}
    IN  IF hits = {} THEN 0 ELSE CHOOSE n \in hits : \A n2 \in hits : n <= n2

\* kelurahan.replace('gunungibul', 'gunung ibul').replace('kel. ', '').title()
KelurahanValue(words) ==
    Name(IF words = <<"gunungibul">> THEN <<"gunung", "ibul">>
         ELSE IF words[1] = "kel." THEN Tail(words) ELSE words, TRUE)

\* a location: the sub-district list is tried first, the district list only
\* when no sub-district matched
Located(c, kel, kec) ==
    IF kel # 0
    THEN [c EXCEPT !.kelurahan = KelurahanValue(kelurahan_list[kel])]
    ELSE IF kec # 0
    THEN [c EXCEPT !.kecamatan = Name(kecamatan_list[kec], TRUE)]
    ELSE c

HasLocation(c) == c.kelurahan # Absent \/ c.kecamatan # Absent

\* lines 150-193: the first pattern whose group names a place decides;
\* when no pattern does, the names are looked up in the whole query
ExtractLocation(q, c) ==
    LET byPattern(p) ==
            LET location == Captured(q, location_patterns[p])
            IN  Located(c, FirstNamed(kelurahan_list, location),
                           FirstNamed(kecamatan_list, location))
        hits == {p \in DOMAIN location_patterns :
                    /\ PatternAt(q, location_patterns[p]) # {}
                    /\ HasLocation(byPattern(p))}
    IN  IF hits # {}
        THEN byPattern(CHOOSE p \in hits : \A p2 \in hits : p <= p2)
        ELSE Located(c, FirstInQuery(kelurahan_list, q),
                        FirstInQuery(kecamatan_list, q))

\* extract_search_criteria, for queries made of the tokens of QueryTokens
\* or of those of PlaceTokens: none of them takes part in a room, area,
\* carport, facility, condition or certificate pattern, so those keys stay
\* out of the dict
extract_search_criteria(query) ==
    LET q == Normalize(query)
    IN  ExtractPreferences(q, ExtractLocation(q, ExtractBudget(q, NoCriteria)))

QueryTokens ==
    {Digits(500), Digits(2)}
        \cup {Word(w) : w \in {"juta", "milyar", "m", "budget", "harga",
                               "rumah", "murah", "besar"}}

\* the tokens of a query that names places
PlaceTokens ==
    {Digits(2)}
        \cup {Word(w) : w \in {"kelurahan", "kecamatan", "majasari", "cambai",
                               "prabumulih", "timur"}}

RECURSIVE QueriesOfLen(_)
QueriesOfLen(n) ==
    IF n = 0 THEN {<<>>}
    ELSE {Append(q, tok) : q \in QueriesOfLen(n - 1), tok \in QueryTokens}

RECURSIVE PlaceQueriesOfLen(_)
PlaceQueriesOfLen(n) ==
    IF n = 0 THEN {<<>>}
    ELSE {Append(q, tok) : q \in PlaceQueriesOfLen(n - 1), tok \in PlaceTokens}

Queries ==
    UNION {QueriesOfLen(n) : n \in 0..MaxQuery}
        \cup UNION {PlaceQueriesOfLen(n) : n \in 0..MaxPhrase}

ExtractObs(op, query, criteria) ==
    [op |-> op, query |-> query, criteria |-> criteria]

InitExtract ==
    /\ store = <<>>
    /\ nextId = 1
    /\ model = None
    /\ scaler = None
    /\ artifact = NoFile
    /\ desc \in Queries
    /\ last = ExtractObs("init", <<>>, NoCriteria)
    /\ ops = 0
    /\ calls = <<>>

\* extract_search_criteria(query) on the query drawn
ExtractGiven ==
    /\ ops = 0
    /\ last' = ExtractObs("extract", desc, extract_search_criteria(desc))
    /\ ops' = ops + 1
    /\ UNCHANGED <<store, nextId, model, scaler, artifact, desc, calls>>

NextExtract == ExtractGiven

SpecExtract == InitExtract /\ [][NextExtract]_vars

----------------------------------------------------------------------------
(* Requests handled at the same time.  The handlers and the service take   *)
(* no lock, so the steps of two requests interleave; a step is one read or *)
(* one write of the data file, of the artifact or of a field of the        *)
(* service.                                                                *)

\* StandardScaler() / RandomForestRegressor(...): an object not yet fitted
UnfittedScaler == [t |-> "scaler", snap |-> <<>>]
UnfittedModel == [t |-> "rf", snap |-> <<>>, est |-> 0]

\* fitted: transform / predict on it does not raise NotFittedError
Fitted(x) == x # None /\ x.snap # <<>>

\* a request in progress: the handler, the id it names, the form data or the
\* description it carries, its position, and its locals (the list it loaded,
\* the training frame, the feature list, the objects lines 132 and 133 were
\* called on, the repository's and train_model's results, the value returned)
Call(kind, id, data, pc) ==
    [kind |-> kind, id |-> id, data |-> data, pc |-> pc, props |-> <<>>,
     df |-> None, feat |-> None, s |-> None, m |-> None, ok |-> None,
     trained |-> None, ret |-> None, raised |-> FALSE]

AdminKinds == {"add", "update", "delete"}

\* the store at the start: MaxSeed usable records
ConcStore == [i \in 1..MaxSeed |-> SeedUsable(i)]

\* the admin requests: add a record, update the first one, delete the last
\* one, update or delete a record that is not there; p is the handler's
\* number, which makes the uuid of an added record
AdminRequests(p) ==
    {Call("add", Num(MaxSeed + p), FormData(Num(3)), "load"),
     Call("update", Num(1), FormData(Num(3)), "find"),
     Call("delete", Num(MaxSeed), None, "load"),
     Call("update", Num(0), FormData(Num(3)), "find"),
     Call("delete", Num(0), None, "load")}

PredictRequests == {Call("predict", None, d, "check") : d \in Descs}

\* the service holds the pair of a training run on the store, which wrote
\* the artifact
InitConc ==
    /\ store = ConcStore
    /\ nextId = Len(store) + 1
    /\ \E e \in FitOutcomes :
       \E sv \in {train_model(store, None, None, NoFile, "ok", e)} :
          /\ model = sv.model
          /\ scaler = sv.scaler
          /\ artifact = sv.artifact
    /\ desc = EmptyDesc
    /\ last = InitObs
    /\ ops = 0
    /\ \E c1 \in AdminRequests(1), c2 \in AdminRequests(2) \cup PredictRequests :
          calls = <<c1, c2>>

\* request p takes a step that leaves its record as c
Step(p, c) ==
    /\ calls' = [calls EXCEPT ![p] = c]
    /\ ops' = ops + 1
    /\ UNCHANGED <<nextId, desc, last>>

\* admin.update_property, lines 119-122: get_property_by_id reads the file
HandlerFind(p) ==
    /\ calls[p].pc = "find"
    /\ Step(p, [calls[p] EXCEPT
                  !.pc = IF calls[p].id \in Ids(store) THEN "load" ELSE "done"])
    /\ UNCHANGED <<store, model, scaler, artifact>>

\* PropertyRepository.add/update/delete_property: properties = load_properties()
RepoLoad(p) ==
    /\ calls[p].pc = "load"
    /\ Step(p, [calls[p] EXCEPT !.props = store, !.pc = "save"])
    /\ UNCHANGED <<store, model, scaler, artifact>>

RepoResult_on_file(c) ==
    CASE c.kind = "add" -> [ok |-> TRUE, props |-> add_property(store, c.data)]
      [] c.kind = "update" -> update_property(store, c.id, c.data)
      [] OTHER -> delete_property(store, c.id)

\* what the repository call makes of the list it loaded: [ok, props]
RepoResult(c) ==
    CASE c.kind = "add" -> [ok |-> TRUE, props |-> add_property(c.props, c.data)]
      [] c.kind = "update" -> update_property(c.props, c.id, c.data)
      [] OTHER -> delete_property(c.props, c.id)

\* the change and save_properties(properties); the update and delete
\* handlers go on to train_model only when the repository returned True
RepoSave(p) ==
    /\ calls[p].pc = "save"
    /\ \E r \in {RepoResult(calls[p])} :
          /\ store' = r.props
          /\ Step(p, [calls[p] EXCEPT !.ok = Bool(r.ok),
                         !.pc = IF r.ok THEN "prepare" ELSE "done"])
    /\ UNCHANGED <<model, scaler, artifact>>

\* train_model, lines 57-59: df = self.prepare_ml_data()
TrainPrepare(p) ==
    /\ calls[p].pc = "prepare"
    /\ \E df \in {prepare_ml_data(store)} :
          Step(p, [calls[p] EXCEPT
                     !.df = df,
                     !.trained = IF df = None THEN Bool(FALSE) ELSE None,
                     !.pc = IF df = None THEN "done" ELSE "66"])
    /\ UNCHANGED <<store, model, scaler, artifact>>

train_model_line_both_at_end(line, m, s, df, e) ==
    IF line = "71" THEN [model |-> FitModel(df, e), scaler |-> FitScaler(df)]
    ELSE [model |-> m, scaler |-> s]

\* the fields of the service after one of lines 66, 67, 70, 71 of train_model
train_model_line(line, m, s, df, e) ==
    CASE line = "66" -> [model |-> m, scaler |-> UnfittedScaler]
      [] line = "67" -> [model |-> m, scaler |-> FitScaler(df)]
      [] line = "70" -> [model |-> UnfittedModel, scaler |-> s]
      [] OTHER -> [model |-> FitModel(df, e), scaler |-> s]

\* the line after each of them
AfterLine == [l \in {"66", "67", "70", "71"} |->
                 CASE l = "66" -> "67" [] l = "67" -> "70"
                   [] l = "70" -> "71" [] OTHER -> "write"]

\* train_model, lines 66-71, one line at a time
TrainAssign(p) ==
    /\ calls[p].pc \in DOMAIN AfterLine
    /\ \E e \in IF calls[p].pc = "71" THEN FitOutcomes ELSE {0} :
       \E f \in {train_model_line(calls[p].pc, model, scaler, calls[p].df, e)} :
          /\ model' = f.model
          /\ scaler' = f.scaler
    /\ Step(p, [calls[p] EXCEPT !.pc = AfterLine[calls[p].pc]])
    /\ UNCHANGED <<store, artifact>>

\* train_model, lines 74-80: the pair dumped is the one the fields hold now
TrainWrite(p) ==
    /\ calls[p].pc = "write"
    /\ \E w \in WriteOutcomes :
          /\ artifact' = Written(artifact, Dump(model, scaler), w)
          /\ Step(p, [calls[p] EXCEPT !.trained = Bool(w = "ok"), !.pc = "done"])
    /\ UNCHANGED <<store, model, scaler>>

\* _get_ml_prediction, lines 104-125: the check of self.model (a load_model
\* when it is None) and the feature list
PredictCheck(p) ==
    /\ calls[p].pc = "check"
    /\ \E c \in Choices(store, model = None /\ LoadTrains(artifact)) :
       \E sv \in {IF model = None
                  THEN load_model(store, model, scaler, artifact, c[1], c[2])
                  ELSE Svc(model, scaler, artifact, TRUE, None, "none")} :
          /\ Apply(sv)
          /\ Step(p, IF ~sv.ret THEN [calls[p] EXCEPT !.pc = "done"]
                     ELSE IF FeaturesRaise(calls[p].data)
                     THEN [calls[p] EXCEPT !.raised = TRUE, !.pc = "done"]
                     ELSE [calls[p] EXCEPT !.feat = Vec(Features(calls[p].data)),
                                           !.pc = "130"])
    /\ UNCHANGED store

\* line 130: if self.scaler is not None and self.model is not None
PredictGuard(p) ==
    /\ calls[p].pc = "130"
    /\ Step(p, [calls[p] EXCEPT
                  !.pc = IF scaler # None /\ model # None THEN "132" ELSE "done"])
    /\ UNCHANGED <<store, model, scaler, artifact>>

\* line 132: self.scaler.transform([features]); NotFittedError is caught
PredictTransform(p) ==
    /\ calls[p].pc = "132"
    /\ Step(p, [calls[p] EXCEPT
                  !.s = scaler,
                  !.pc = IF Fitted(scaler) THEN "133" ELSE "done"])
    /\ UNCHANGED <<store, model, scaler, artifact>>

\* lines 133-134: self.model.predict(features_scaled)[0], max(0, prediction)
PredictModel(p) ==
    /\ calls[p].pc = "133"
    /\ Step(p, [calls[p] EXCEPT
                  !.m = model,
                  !.ret = IF Fitted(model)
                          THEN Num(Clamp(ModelPredict(model,
                                   Transform(calls[p].s, calls[p].feat.x))))
                          ELSE None,
                  !.pc = "done"])
    /\ UNCHANGED <<store, model, scaler, artifact>>

NextConc ==
    \/ \E p \in DOMAIN calls : HandlerFind(p)
    \/ \E p \in DOMAIN calls : RepoLoad(p)
    \/ \E p \in DOMAIN calls : RepoSave(p)
    \/ \E p \in DOMAIN calls : TrainPrepare(p)
    \/ \E p \in DOMAIN calls : TrainAssign(p)
    \/ \E p \in DOMAIN calls : TrainWrite(p)
    \/ \E p \in DOMAIN calls : PredictCheck(p)
    \/ \E p \in DOMAIN calls : PredictGuard(p)
    \/ \E p \in DOMAIN calls : PredictTransform(p)
    \/ \E p \in DOMAIN calls : PredictModel(p)

SpecConc == InitConc /\ [][NextConc]_vars

----------------------------------------------------------------------------
(* The calls _extract_criteria_with_ai makes to the AI service              *)

max_retries == 3    \* max_retries = 3

\* what one generate_content call can end in: an answer that json.loads
\* parses, an exception whose text holds '503', 'overloaded' or
\* 'unavailable', or any other exception (a failed call, an answer without
\* text, an answer that is not JSON)
Overloaded == [t |-> "overloaded"]
Failed == [t |-> "failed"]
Answers(value) == [t |-> "answer", value |-> value]

\* a JSON value that is not an object: json.loads gives a list for '[]'
JsonList == [t |-> "list"]

\* the answers of the model: JSON objects, and a JSON array
CallOutcomes ==
    {Overloaded, Failed}
        \cup {Answers(v) : v \in {NoCriteria, WithBudget(NullCriteria), JsonList}}

\* min(base_delay * (2 ** attempt), 32), attempt counted from 0
wait_time(attempt) ==
    LET d == 2 ^ attempt IN IF d < 32 THEN d ELSE 32

\* the loop of lines 170-207 from attempt number `attempt` on (counted from
\* 0), given what each call ends in: the outcome of the loop, the number of
\* calls made and the waits between them
RECURSIVE RetryLoop(_, _, _)
RetryLoop(outs, attempt, waits) ==
    LET out == outs[attempt + 1]
    IN  IF out.t = "answer"
        THEN [ai |-> AIGives(out.value), calls |-> attempt + 1, waits |-> waits]
        ELSE IF out = Overloaded /\ attempt < max_retries - 1
        THEN RetryLoop(outs, attempt + 1, Append(waits, wait_time(attempt)))
        ELSE [ai |-> AIError, calls |-> attempt + 1, waits |-> waits]

RetryObs(op, outs, run) ==
    [op |-> op, outs |-> outs, calls |-> run.calls, waits |-> run.waits,
     raised |-> FALSE, result |-> _extract_criteria_with_ai(run.ai)]

\* what the service would do on each of the calls of one extraction
InitRetry ==
    /\ store = <<>>
    /\ nextId = 1
    /\ model = None
    /\ scaler = None
    /\ artifact = NoFile
    /\ desc \in [1..max_retries -> CallOutcomes]
    /\ last = [op |-> "init", outs |-> <<>>, calls |-> 0, waits |-> <<>>,
               raised |-> FALSE, result |-> NoCriteria]
    /\ ops = 0
    /\ calls = <<>>

\* AIPropertySearch._extract_criteria_with_ai(query, properties)
ExtractWithAI ==
    /\ ops = 0
    /\ last' = RetryObs("ai_extract", desc, RetryLoop(desc, 0, <<>>))
    /\ ops' = ops + 1
    /\ UNCHANGED <<store, nextId, model, scaler, artifact, desc, calls>>

NextRetry == ExtractWithAI

SpecRetry == InitRetry /\ [][NextRetry]_vars

----------------------------------------------------------------------------
(* What the prediction endpoints answer for a result of predict_price      *)

\* the range around a prediction p, variation = p * 0.2, in fifths of a
\* rupiah so that the 20% stays an integer:
\* min_price = max(0, p - variation), max_price = p + variation
PriceRange(p) ==
    [min_price |-> Max0(5 * p - p), max_price |-> 5 * p + p,
     predicted_price |-> 5 * p]

\* MLPredictionService.get_price_range after its predict_price call
get_price_range(ret) ==
    IF ret = None THEN None ELSE PriceRange(ret.v)

\* api.predict_price (POST /api/predict) after ml_service.predict_price
\* returned ret or raised
api_predict(ret, raised) ==
    IF raised THEN [success |-> FALSE, error |-> "str(e)", prediction |-> None]
    ELSE IF Truthy(ret)
    THEN [success |-> TRUE, error |-> "", prediction |-> PriceRange(ret.v)]
    ELSE [success |-> FALSE, error |-> "Unable to predict price",
          prediction |-> None]

\* main.predict (POST /predict) after ml_service.predict_price returned ret:
\* the price_range handed to the template
page_predict(ret) ==
    IF Truthy(ret) THEN PriceRange(ret.v) ELSE None

----------------------------------------------------------------------------
(* Properties *)

\* a call was made in this step
Called == ops' # ops

\* the number of records with a positive price and both area keys
UsableCount(props) ==
    Cardinality({i \in DOMAIN props :
        /\ props[i].harga.t = "num" /\ props[i].harga.v > 0
        /\ props[i].luas_tanah # Absent
        /\ props[i].luas_bangunan # Absent})

\* C1: whenever train_model has run, it returned False if the store held
\* fewer than 5 usable records, and True if it held exactly 5 and the
\* artifact was written.
C1_TrainNeedsFiveUsable ==
    last.trained # None =>
        /\ UsableCount(store) < 5 => last.trained = Bool(FALSE)
        /\ (UsableCount(store) = 5 /\ last.w = "ok") => last.trained = Bool(TRUE)

\* train_model succeeded on a store of 6 records of which exactly 5 are usable
C1_Witness ==
    /\ last.trained = Bool(TRUE)
    /\ UsableCount(store) = 5
    /\ Len(store) = 6

\* C2: a predict_price call that returns, returns None or a number >= 0,
\* and returns 0 when the raw estimate is negative.
C2_PredictNonNegative ==
    (last.op = "predict" /\ ~last.raised) =>
        \/ last.ret = None
        \/ /\ last.ret.t = "num"
           /\ last.ret.v >= 0
           /\ last.raw.v < 0 => last.ret.v = 0

\* a prediction whose raw estimate was negative returned 0
C2_Witness ==
    /\ last.op = "predict"
    /\ last.raw # None
    /\ last.raw.v < 0
    /\ last.ret = Num(0)

\* the defaults as documented, in feature order
DocumentedDefaults == <<100, 80, 2, 1, 0, 2020, 1, 1000, 2000, 1500, 0, 0, 0>>

\* every key of the description is omitted or well-formed
WellFormed(d) ==
    \A k \in NumericKeys : d[k].t \in {"absent", "num"}

\* C3: for a description that omits any subset of the 13 keys, predict_price
\* does not raise, and the feature list it builds holds the documented
\* default at the position of every omitted key.
C3_DefaultsForOmitted ==
    (last.op = "predict" /\ WellFormed(desc)) =>
        /\ ~last.raised
        /\ last.feat # None =>
              \A i \in DOMAIN InputKeys :
                  desc[InputKeys[i]] = Absent =>
                      last.feat.x[i] = DocumentedDefaults[i]

\* a feature list was built from a description that gives the land area and
\* omits the bedroom count and the condition
C3_Witness ==
    /\ last.op = "predict"
    /\ last.feat # None
    /\ desc["luas_tanah"] # Absent
    /\ desc["kamar_tidur"] = Absent
    /\ desc["kondisi"] = Absent

\* C4: when a numeric key is present but null or not a number, predict_price
\* does not raise, and uses the documented default for it.
C4_GarbledGetsDefault ==
    last.op = "predict" =>
        /\ ~last.raised
        /\ last.feat # None =>
              \A i \in 1..10 :
                  desc[InputKeys[i]].t \in {"none", "str"} =>
                      last.feat.x[i] = DocumentedDefaults[i]

\* the file holds a whole blob / holds something that is not a whole blob
Complete(f) == f.exists /\ Len(f.blob) = 2
Corrupt(f) == f.exists /\ Len(f.blob) < 2

\* C5: a predict_price call made with no model in memory runs load_model
\* first; if the load fails it returns None without raising; if the load
\* succeeds the estimate is made with the pair the load left in memory, which
\* is the pair the artifact holds.
C5_LazyLoadBeforePredict ==
    [][(Called /\ last'.op = "predict" /\ model = None) =>
          /\ last'.loaded # None
          /\ last'.loaded = Bool(FALSE) => (last'.ret = None /\ ~last'.raised)
          /\ (last'.loaded = Bool(TRUE) /\ ~last'.raised) =>
                /\ Complete(artifact')
                /\ model' = artifact'.blob[1].val
                /\ scaler' = artifact'.blob[2].val
                /\ Complete(artifact) => artifact' = artifact
                /\ last'.ret = Num(Max0(ModelPredict(model',
                                     Transform(scaler', last'.feat.x))))]_vars

\* a prediction was returned after a lazy load that read the artifact
C5_Witness ==
    /\ last.op = "predict"
    /\ last.loaded = Bool(TRUE)
    /\ last.trained = None
    /\ last.ret # None

\* C6: load_model runs train_model exactly when the artifact is absent, and
\* then returns train_model's result, fitted on the current store; on a
\* corrupt artifact it returns False, runs no train_model and changes nothing.
C6_LoadFallsBackOnlyWhenAbsent ==
    [][(Called /\ last'.op = "load") =>
          /\ (last'.trained # None) <=> ~artifact.exists
          /\ ~artifact.exists => last'.ret = last'.trained
          /\ (~artifact.exists /\ last'.ret = Bool(TRUE)) =>
                model'.snap = Rows(store)
          /\ Corrupt(artifact) =>
                /\ last'.ret = Bool(FALSE)
                /\ model' = model /\ scaler' = scaler
                /\ artifact' = artifact]_vars

\* load_model returned False on a corrupt artifact without retraining
C6_Witness ==
    /\ last.op = "load"
    /\ Corrupt(artifact)
    /\ last.ret = Bool(FALSE)
    /\ last.trained = None

\* what predict_price returns for d with this pair in memory
PredictValue(m, s, d) ==
    PredictWith(Svc(m, s, NoFile, TRUE, None, "none"), d, None).ret

C8_ArtifactNeverPartial ==
    [][artifact' # artifact => (~artifact'.exists \/ Complete(artifact'))]_vars

\* the model / the artifact is fitted on the usable rows of props
FittedOn(fitted, props) == fitted # None /\ fitted.snap = Rows(props)

ArtifactFittedOn(f, props) ==
    /\ Complete(f)
    /\ FittedOn(f.blob[1].val, props)
    /\ FittedOn(f.blob[2].val, props)

Sources(rows) == {rows[i].src : i \in DOMAIN rows}

\* C9 as claimed: after the delete handler has deleted a record and run
\* train_model, neither the model in memory nor the artifact is fitted on a
\* snapshot that contains the deleted record.
C9_DeleteAlwaysReflected ==
    (last.op = "delete" /\ last.ok = Bool(TRUE)) =>
        /\ model # None => last.id \notin Sources(model.snap)
        /\ Complete(artifact) =>
              last.id \notin Sources(artifact.blob[1].val.snap)

\* C9 as amended: this holds when that train_model returned success.
C9_DeleteReflectedOnSuccess ==
    (last.op = "delete" /\ last.trained = Bool(TRUE)) =>
        /\ FittedOn(model, store)
        /\ FittedOn(scaler, store)
        /\ ArtifactFittedOn(artifact, store)
        /\ last.id \notin Sources(model.snap)
        /\ last.id \notin Sources(artifact.blob[1].val.snap)

\* a record was deleted and the retraining that followed succeeded
C9_Witness ==
    /\ last.op = "delete"
    /\ last.ok = Bool(TRUE)
    /\ last.trained = Bool(TRUE)

----------------------------------------------------------------------------
(* Properties of the search *)

\* the operations that answer a search request
SearchOps == {"request", "search"}

IsAvailable(prop) == prop.status = Label("available")

\* the records of the data file with status 'available', in file order
AvailableSubset == SelectSeq(store, IsAvailable)

\* the elements of a sequence
Elems(seq) == {seq[i] : i \in DOMAIN seq}

\* C11: every record a search request returns has status 'available',
\* whatever the query and whichever path answers it.
C11_SearchReturnsOnlyAvailable ==
    last.op \in SearchOps =>
        \A i \in DOMAIN last.result : IsAvailable(last.result[i])

\* the AI gave no criterion: the call failed, or its JSON is empty or holds
\* nulls only
ZeroCriteria == {AIError, AIGives(NoCriteria), AIGives(NullCriteria)}

\* C12: given an empty criteria dict, both filters return the list they
\* were given, unchanged (the AI filter also when every key is null); a
\* search whose extraction gave no criterion answers with the available
\* records in file order, up to the number a response shows.
C12_EmptyCriteriaReturnsInput ==
    /\ (last.op \in {"filter_ai", "filter_strict"}
            /\ last.criteria \in {NoCriteria, NullCriteria}) =>
          (~last.raised /\ last.result = last.input)
    /\ (last.op \in SearchOps /\ last.criteria \in ZeroCriteria
            /\ AvailableSubset # <<>>) =>
          last.result = Take(AvailableSubset, DisplayCount)

\* the AI filter was given the two available records of a data file of
\* three and no criteria, and returned them
C12_Witness ==
    /\ last.op = "filter_ai"
    /\ last.criteria = NoCriteria
    /\ Len(last.input) = 2
    /\ Len(store) = 3
    /\ last.result = last.input

\* the hard constraints of the criteria: the price inside the budget range
\* when one is given, the sub-district equal to the one given
InBudget(prop, c) ==
    /\ prop.harga # None
    /\ prop.harga.v >= c.budget_min.v
    /\ prop.harga.v <= c.budget_max.v

SatisfiesHard(prop, c) ==
    /\ (CGet(c, "budget_min") # None /\ CGet(c, "budget_max") # None) =>
          InBudget(prop, c)
    /\ CGet(c, "kelurahan") # None =>
          Lower(prop.kelurahan) = Lower(c.kelurahan)

\* C13: the AI filter returns a record if and only if it satisfies every
\* hard constraint of the criteria.
C13_KeptIffHardConstraints ==
    (last.op = "filter_ai" /\ ~last.raised /\ last.criteria # NoCriteria) =>
        \A i \in DOMAIN last.input :
            (last.input[i] \in Elems(last.result))
                <=> SatisfiesHard(last.input[i], last.criteria)

\* C14: with no price preference, the AI filter returns the records by
\* non-increasing score, and records of equal score in the order of the
\* data file.
C14_ScoreOrderStable ==
    (last.op = "filter_ai" /\ ~last.raised
        /\ CGet(last.criteria, "price_preference") = None) =>
        \A i, j \in DOMAIN last.result :
            i < j =>
                LET si == Score(last.result[i], last.criteria)
                    sj == Score(last.result[j], last.criteria)
                IN  /\ si >= sj
                    /\ si = sj => last.result[i].id.v < last.result[j].id.v

\* the sort moved a record ahead of an earlier one and left two records of
\* equal score in file order
C14_Witness ==
    /\ last.op = "filter_ai"
    /\ CGet(last.criteria, "price_preference") = None
    /\ Len(last.result) = 3
    /\ last.result # last.input
    /\ \E i \in 1..2 :
          Score(last.result[i], last.criteria)
              = Score(last.result[i + 1], last.criteria)

\* a criteria dict asks for a price or a size order
WantsPrice(c) == CGet(c, "price_preference") \in {Label("low"), Label("high")}
WantsSize(c) == CGet(c, "size_preference") \in {Label("small"), Label("large")}

\* the criteria without the two preferences
WithoutPreference(c) ==
    [c EXCEPT !.price_preference = Absent, !.size_preference = Absent]

\* what the filter of the observed call returns for these criteria
FilterOf(op, props, c) ==
    IF op = "filter_ai" THEN _filter_properties_with_criteria(props, c)
    ELSE filter_properties_strict(props, c)

\* the price of a record for an order in which null prices come last
PriceOrNull(prop, ifNull) == IF prop.harga = None THEN ifNull ELSE prop.harga.v

\* seq is ordered by key: non-decreasing, or non-increasing when reverse
OrderedBy(seq, key(_), reverse) ==
    \A i, j \in DOMAIN seq :
        i < j => IF reverse THEN key(seq[i]) >= key(seq[j])
                 ELSE key(seq[i]) <= key(seq[j])

\* C15: a price or size preference only reorders: where the filter returns
\* a list without the preference, it returns the same records with it, by
\* ascending price for 'low', descending price for 'high', ascending total
\* area for 'small' and descending total area for 'large'.
C15_PreferenceOnlyReorders ==
    (last.op \in {"filter_ai", "filter_strict"}
        /\ (WantsPrice(last.criteria) \/ WantsSize(last.criteria))
        /\ ~FilterOf(last.op, last.input, WithoutPreference(last.criteria)).raised) =>
        LET c == last.criteria
            base == FilterOf(last.op, last.input, WithoutPreference(c))
            low(p) == PriceOrNull(p, Inf)
            high(p) == PriceOrNull(p, 0)
        IN  /\ ~last.raised
            /\ Len(last.result) = Len(base.props)
            /\ Elems(last.result) = Elems(base.props)
            /\ CGet(c, "price_preference") = Label("low") =>
                  OrderedBy(last.result, low, FALSE)
            /\ CGet(c, "price_preference") = Label("high") =>
                  OrderedBy(last.result, high, TRUE)
            /\ CGet(c, "size_preference") = Label("small") =>
                  OrderedBy(last.result, TotalArea, FALSE)
            /\ CGet(c, "size_preference") = Label("large") =>
                  OrderedBy(last.result, TotalArea, TRUE)

\* C16: for a query that is an amount and a unit word, 'N juta' gives the
\* point budget N x 1,000,000 and 'N milyar' gives N x 1,000,000,000 (N x
\* 1000 millions), each with a band around the point budget.
C16_BudgetScaledByUnit ==
    (last.op = "extract" /\ Len(Normalize(last.query)) = 2
        /\ Normalize(last.query)[1].t = "digits"
        /\ Normalize(last.query)[2] \in {Word("juta"), Word("milyar")}) =>
        LET n == Normalize(last.query)[1].v
            unit == Normalize(last.query)[2].w
            c == last.criteria
        IN  /\ c.budget # Absent /\ c.budget_range # Absent
            /\ c.budget.v % Million = 0
            /\ c.budget.v \div Million = IF unit = "juta" THEN n ELSE n * 1000
            /\ c.budget_range.lo < c.budget.v
            /\ c.budget.v < c.budget_range.hi

\* twice the distance of a price from the centre of the budget band
FromCenter(prop, c) ==
    LET d == 2 * prop.harga.v - (c.budget_min.v + c.budget_max.v)
    IN  IF d < 0 THEN 0 - d ELSE d

\* C17: with the budget as the only criterion, every record whose price is
\* inside the band is returned, and no record is placed after one whose
\* price is farther from the centre of the band.
C17_RankedByProximity ==
    (last.op = "filter_ai" /\ last.criteria = WithBudget(NullCriteria)) =>
        /\ \A i \in DOMAIN last.input :
              InBudget(last.input[i], last.criteria) =>
                  last.input[i] \in Elems(last.result)
        /\ \A i, j \in DOMAIN last.result :
              i < j => FromCenter(last.result[i], last.criteria)
                           <= FromCenter(last.result[j], last.criteria)

\* C18: with a bedroom count in the criteria the strict filter returns only
\* records with exactly that count, and likewise for the bathroom count.
C18_ExactRoomCount ==
    (last.op = "filter_strict" /\ ~last.raised) =>
        \A i \in DOMAIN last.result :
            /\ last.criteria.kamar_tidur # Absent =>
                  last.result[i].kamar_tidur = last.criteria.kamar_tidur
            /\ last.criteria.kamar_mandi # Absent =>
                  last.result[i].kamar_mandi = last.criteria.kamar_mandi

\* asked for 2 bedrooms, the strict filter was given a record with 3 and
\* returned records, none of them that one
C18_Witness ==
    /\ last.op = "filter_strict"
    /\ last.criteria.kamar_tidur = Num(2)
    /\ \E i \in DOMAIN last.input : last.input[i].kamar_tidur = Num(3)
    /\ last.result # <<>>
    /\ \A i \in DOMAIN last.result : last.result[i].kamar_tidur = Num(2)

\* the search failed: the AI call errored, or an exception was caught
SearchFailed ==
    \/ last.criteria = AIError
    \/ last.explanation \in {"search_error", "endpoint_error"}

\* C19: a failed search answers with no records and an explanation.
C19_FailedSearchIsEmpty ==
    (last.op \in SearchOps /\ SearchFailed) =>
        (last.result = <<>> /\ last.explanation # "none")

\* C20: for a description with both areas, the feature list predict_price
\* builds equals the training row built from the same values, position by
\* position; a known label gives its positive code, any other label or a
\* missing one gives 0.
C20_PredictRowEqualsTrainRow ==
    (last.op = "predict" /\ last.feat # None
        /\ desc["luas_tanah"] # Absent /\ desc["luas_bangunan"] # Absent) =>
        /\ last.feat.x = RowFeatures(desc)
        /\ \A i \in 11..13 :
              LET value == desc[InputKeys[i]]
                  table == CategoricalMap[InputKeys[i]]
              IN  IF value.t = "label" /\ value.s \in DOMAIN table
                  THEN last.feat.x[i] = table[value.s] /\ table[value.s] > 0
                  ELSE last.feat.x[i] = 0

\* a feature list was built from a description with both areas whose
\* condition label is not in the table
C20_Witness ==
    /\ last.op = "predict"
    /\ last.feat # None
    /\ desc["luas_tanah"] # Absent /\ desc["luas_bangunan"] # Absent
    /\ desc["kondisi"] = Label("lainnya")
    /\ last.feat.x[12] = 0

----------------------------------------------------------------------------
(* Properties of the model and scaler pair *)

\* the model and the scaler come from one fit: both fitted on the same
\* training frame
FittedTogether(m, s) == m # None /\ s # None /\ m.snap = s.snap

\* C21: after any sequence of train_model, load_model and predict_price
\* calls made one after the other (and of the handlers that run them), the
\* model and the scaler in memory are both unset or were fitted together in
\* one training run, and a prediction that returns a value was made with
\* such a pair.
C21_PairFittedTogether ==
    /\ (model = None /\ scaler = None) \/ FittedTogether(model, scaler)
    /\ (last.op = "predict" /\ last.ret # None) => FittedTogether(model, scaler)

\* load_model replaced the pair of a training run on six rows, whose write
\* had failed, with the pair the artifact holds, fitted on five
C21_Witness ==
    /\ last.op = "load"
    /\ last.ret = Bool(TRUE)
    /\ FittedTogether(model, scaler)
    /\ Len(Rows(store)) = MaxSeed + 1
    /\ Len(model.snap) = MaxSeed

\* C22: while a train_model run is between its lines 67 and 70 the fields
\* hold the scaler of this run with the model of the run before, a pair not
\* fitted together; and a predict_price call handled at the same time
\* returns the estimate of whatever scaler line 132 and whatever model line
\* 133 found in the fields, with no check that they belong together.
C22_TornPairObservable ==
    \A p, q \in DOMAIN calls :
        (calls[p].kind \in AdminKinds /\ calls[q].kind = "predict") =>
            /\ calls[p].pc = "70" =>
                  /\ scaler = FitScaler(calls[p].df)
                  /\ Fitted(model)
                  /\ ~FittedTogether(model, scaler)
            /\ calls[q].ret # None =>
                  /\ Fitted(calls[q].s) /\ Fitted(calls[q].m)
                  /\ calls[q].ret =
                        Num(Max0(ModelPredict(calls[q].m,
                                Transform(calls[q].s, calls[q].feat.x))))

\* a prediction returned a value made with a scaler and a model that were
\* not fitted together
C22_Witness ==
    \E q \in DOMAIN calls :
        /\ calls[q].kind = "predict"
        /\ calls[q].pc = "done"
        /\ calls[q].ret # None
        /\ calls[q].m.snap # calls[q].s.snap

\* request p saves the list / writes the artifact in this step
Saves(p) == calls[p].pc = "save" /\ calls'[p].ok = Bool(TRUE)
Writes(p) == calls[p].pc = "write" /\ calls'[p].trained = Bool(TRUE)

\* C23: a repository call saves the list it loaded with its own change, so
\* what another request saved after that load is overwritten; and a
\* train_model run that writes the artifact replaces whatever another run
\* wrote before with the pair the fields hold then.
C23_LastWriterWins ==
    [][\A p \in DOMAIN calls :
          /\ Saves(p) =>
                store' = CASE calls[p].kind = "add" ->
                                  Append(calls[p].props, calls[p].data)
                           [] calls[p].kind = "update" ->
                                  update_property(calls[p].props, calls[p].id,
                                                  calls[p].data).props
                           [] OTHER ->
                                  SelectSeq(calls[p].props,
                                            LAMBDA r : r.id # calls[p].id)
          /\ Writes(p) =>
                artifact' = [exists |-> TRUE, blob |-> Dump(model, scaler)]]_vars

\* both requests reported success, yet the record one of them added is not
\* in the store, and the artifact holds the pair of the run whose frame was
\* read before the other request's save
C23_Witness ==
    /\ \A p \in DOMAIN calls :
          /\ calls[p].pc = "done"
          /\ calls[p].ok = Bool(TRUE)
          /\ calls[p].trained = Bool(TRUE)
    /\ \E p \in DOMAIN calls :
          calls[p].kind = "add" /\ calls[p].id \notin Ids(store)
    /\ Complete(artifact)
    /\ artifact.blob[1].val.snap # Rows(store)

----------------------------------------------------------------------------
(* Properties of the retraining the handlers trigger *)

MutationOps == {"add", "update", "delete"}

\* C24: an update or delete request runs train_model exactly when the
\* repository reported success; a request naming an id no record has runs
\* none and leaves the store, the fields and the artifact as they were; and
\* the train_model run of an add, update or delete request reads the
\* collection as the request saved it: the added record is in it, the
\* deleted one is not, and what it fits is fitted on that collection.
C24_TrainAfterSavedMutation ==
    [][(Called /\ last'.op \in MutationOps) =>
          /\ last'.op # "add" =>
                /\ (last'.trained # None) <=> (last'.ok = Bool(TRUE))
                /\ last'.id \notin Ids(store) =>
                      /\ last'.trained = None
                      /\ store' = store
                      /\ UNCHANGED <<model, scaler, artifact>>
          /\ last'.op = "add" =>
                (last'.trained # None /\ last'.id \in Ids(store'))
          /\ (last'.op = "delete" /\ last'.trained # None) =>
                last'.id \notin Ids(store')
          /\ last'.trained # None =>
                IF prepare_ml_data(store') = None
                THEN last'.trained = Bool(FALSE) /\ last'.w = "none"
                ELSE FittedOn(model', store') /\ FittedOn(scaler', store')]_vars

\* a delete request named an id no record has: the repository returned
\* False and no train_model ran, although the store holds enough records
\* for one
C24_Witness ==
    /\ last.op = "delete"
    /\ last.ok = Bool(FALSE)
    /\ last.trained = None
    /\ prepare_ml_data(store) # None

RepoOps == {"repo_add", "repo_update", "repo_delete"}

\* C25: a predict_price call made with a model in memory leaves the model,
\* the scaler and the artifact as they were and returns the estimate of that
\* pair, whatever the store holds by then; a repository add, update or
\* delete leaves all three as they were, so every description gets the
\* prediction it got before.
C25_NoImplicitRetraining ==
    [][Called =>
          /\ (last'.op = "predict" /\ model # None) =>
                /\ UNCHANGED <<model, scaler, artifact>>
                /\ last'.trained = None
                /\ ~last'.raised => last'.ret = PredictValue(model, scaler, desc')
          /\ last'.op \in RepoOps =>
                /\ UNCHANGED <<model, scaler, artifact>>
                /\ \A d \in Descs :
                      PredictValue(model', scaler', d) = PredictValue(model, scaler, d)]_vars

\* a prediction was returned by the model in memory, fitted on five rows,
\* after the repository had added a sixth usable record
C25_Witness ==
    /\ last.op = "predict"
    /\ last.loaded = None
    /\ last.ret # None
    /\ model.snap # Rows(store)
    /\ Len(Rows(store)) = MaxSeed + 1

----------------------------------------------------------------------------
(* Properties of the criteria extractor's location *)

\* the query holds a name of the list, whole
Mentions(list, q) == FirstInQuery(list, q) # 0

\* C26: the criteria never hold both 'kelurahan' and 'kecamatan', and for a
\* query whose text holds a name of the sub-district list and a name of the
\* district list they hold 'kelurahan' and no 'kecamatan'.
C26_KelurahanOverKecamatan ==
    last.op = "extract" =>
        /\ ~(last.criteria.kelurahan # Absent /\ last.criteria.kecamatan # Absent)
        /\ (Mentions(kelurahan_list, Normalize(last.query))
                /\ Mentions(kecamatan_list, Normalize(last.query))) =>
              (last.criteria.kelurahan # Absent /\ last.criteria.kecamatan = Absent)

----------------------------------------------------------------------------
(* Properties of the AI extraction's retry loop *)

\* C27: _extract_criteria_with_ai returns a dict without raising; it calls
\* the AI service at most 3 times, makes a call after the first only when
\* the call before ended in an overload error, and returns {} when the last
\* call it made did not answer.
C27_RetryReturnsDict ==
    last.op = "ai_extract" =>
        /\ ~last.raised
        /\ last.result # JsonList
        /\ last.calls \in 1..3
        /\ \A i \in 2..last.calls : last.outs[i - 1] = Overloaded
        /\ \A i \in 1..(last.calls - 1) : last.outs[i].t # "answer"
        /\ last.outs[last.calls].t # "answer" => last.result = NoCriteria
        /\ (last.outs[last.calls] = Failed \/ last.calls = 3
                \/ last.outs[last.calls].t = "answer")

----------------------------------------------------------------------------
(* Properties of a failed training *)

\* C28: whenever train_model returns False, for too few rows or for a failed
\* write of the artifact, the model and the scaler in memory are the ones
\* held before the call.
C28_FailedTrainKeepsPair ==
    [][(last'.op = "train" /\ last'.ret = Bool(FALSE))
          => (model' = model /\ scaler' = scaler)]_vars

----------------------------------------------------------------------------
(* Properties of the prediction endpoints *)

\* C29: whenever predict_price returns a value, the clamped 0 included, both
\* /api/predict and the /predict page report a successful prediction with
\* the range derived from it (min = max(0, p - 20%), max = p + 20%, min <= p
\* <= max); they report no prediction only when predict_price returned None.
C29_EndpointsReportEveryValue ==
    (last.op = "predict" /\ ~last.raised) =>
        LET api == api_predict(last.ret, last.raised)
            page == page_predict(last.ret)
            range == get_price_range(last.ret)
        IN  IF last.ret = None
            THEN /\ ~api.success
                 /\ api.error = "Unable to predict price"
                 /\ page = None
            ELSE /\ api.success
                 /\ api.prediction = range
                 /\ page = range
                 /\ range.min_price = Max0(4 * last.ret.v)
                 /\ range.max_price = 6 * last.ret.v
                 /\ range.min_price <= range.predicted_price
                 /\ range.predicted_price <= range.max_price

----------------------------------------------------------------------------
(* Properties of the strict filter on records without a price *)

\* every null-priced record of seq stands after every priced one
NullPricedLast(seq) ==
    \A i, j \in DOMAIN seq :
        (seq[i].harga = None /\ seq[j].harga # None) => j < i

\* C30: for a list in which some record has a null price,
\* filter_properties_strict with a budget range or a price preference
\* returns without raising, leaves the null-priced records out under a
\* budget range and puts them last under a price preference.
C30_StrictFilterBearsNullPrice ==
    (last.op = "filter_strict"
        /\ (\E i \in DOMAIN last.input : last.input[i].harga = None)
        /\ (HasKey(last.criteria, "budget_range") \/ PriceSorts(last.criteria))) =>
        /\ ~last.raised
        /\ HasKey(last.criteria, "budget_range") =>
              \A i \in DOMAIN last.result : last.result[i].harga # None
        /\ (PriceSorts(last.criteria) /\ ~WantsSize(last.criteria)) =>
              NullPricedLast(last.result)

====
